---- MODULE Spec2Model ----
\* smart-storage (src/src/index.ts): a Store Engine over a key-value backend
\* with JSON envelopes, lazy TTL expiration, change events and key namespacing.
EXTENDS Integers, Sequences, FiniteSets, TLC

VARIABLES
    clock,      \* the value Date.now() returns (ms)
    host,       \* TRUE when make() was given a real Storage in a browser
    backing,    \* the backend: entries [k, raw] in enumeration (insertion) order
    fns,        \* the emitter's Set of listeners, in insertion order
    issued,     \* the listeners for which an Unsubscribe handle has been returned
    calls,      \* the listener invocations [fn, c] recorded by the listeners, in order
    last,       \* the call that was made last and what it returned
    wrote,      \* per key: the last set() since the last remove()/clear() of it
    due,        \* per listener: the mutations performed while it was subscribed
    faulty,     \* the backend operations that throw for now (quota reached, access denied)
    handles     \* the Unsubscribe handles returned, one by one, and whether each was invoked

vars == <<clock, host, backing, fns, issued, calls, last, wrote, due, faulty, handles>>

\* ---------------------------------------------------------------- bounds
MaxClock == 3
MaxTTL == 2
MaxCalls == 3
MaxHandles == 3

\* ---------------------------------------------------------------- universe
Listeners == {"L1", "L2"}

\* Keys are strings, modelled as sequences of characters.
KeyA == <<"a">>
KeyAX == <<"a", ":", "x">>
KeyBY == <<"b", ":", "y">>
KeyX == <<"x">>
KeyBX == <<"b", ":", "x">>
StoreKeys == {KeyA, KeyAX}
OutsideKeys == {KeyA, KeyBY}
SubKeys == {KeyX}
AllKeys == StoreKeys \cup OutsideKeys \cup SubKeys \cup {KeyBX}
Prefixes == {<<"a">>}
NsKeys == {KeyX}

\* JavaScript values a caller may pass to set().
JSValues == {"undefined", "NaN", "1"}
\* Those of them that JSON represents and that are not undefined.
JSONValues == {"1"}

NoOpts == [has |-> FALSE, ttl |-> 0]
TTLOpts == {[has |-> TRUE, ttl |-> t] : t \in 1..MaxTTL}
Opts == {NoOpts} \cup TTLOpts
ShortOpts == {NoOpts, [has |-> TRUE, ttl |-> 1]}

\* ---------------------------------------------------------------- strings
startsWith(k, pre) ==
    /\ Len(k) >= Len(pre)
    /\ SubSeq(k, 1, Len(pre)) = pre

slice(k, n) == SubSeq(k, n + 1, Len(k))

\* ---------------------------------------------------------------- JSON
\* JSON.stringify of one value: undefined has no JSON text (the field is
\* dropped), NaN is written as null.
stringifyValue(v) ==
    CASE v = "undefined" -> [has |-> FALSE, text |-> "null"]
      [] v = "NaN" -> [has |-> TRUE, text |-> "null"]
      [] OTHER -> [has |-> TRUE, text |-> v]

\* JSON.stringify(payload) of a Stored<T> {v, e?}: the raw string, kept as the
\* fields it spells out.
stringify(payload) ==
    LET sv == stringifyValue(payload.v)
    IN [kind |-> "object", hasV |-> sv.has, v |-> sv.text,
        hasE |-> payload.hasE, e |-> payload.e]

\* Raw strings that are not envelopes: the empty string, text JSON.parse
\* rejects, and JSON text of a falsy value (null, 0, false).
RawEmpty == [kind |-> "empty", hasV |-> FALSE, v |-> "null", hasE |-> FALSE, e |-> 0]
RawInvalid == [kind |-> "invalid", hasV |-> FALSE, v |-> "null", hasE |-> FALSE, e |-> 0]
RawFalsy == [kind |-> "falsy", hasV |-> FALSE, v |-> "null", hasE |-> FALSE, e |-> 0]

\* safeParse(raw): item is what getItem returned, [found, raw]. The result is
\* undefined (no raw string, or JSON.parse threw), a falsy parsed value, or the
\* parsed object with its fields v and e.
safeParse(item) ==
    IF ~item.found \/ item.raw.kind = "empty" THEN
        [kind |-> "undefined", v |-> "undefined", hasE |-> FALSE, e |-> 0]
    ELSE IF item.raw.kind = "invalid" THEN
        [kind |-> "undefined", v |-> "undefined", hasE |-> FALSE, e |-> 0]
    ELSE IF item.raw.kind = "falsy" THEN
        [kind |-> "falsy", v |-> "undefined", hasE |-> FALSE, e |-> 0]
    ELSE [kind |-> "object",
          v |-> IF item.raw.hasV THEN item.raw.v ELSE "undefined",
          hasE |-> item.raw.hasE, e |-> item.raw.e]

\* ---------------------------------------------------------------- backend
indexOf(b, k) ==
    IF \E i \in 1..Len(b) : b[i].k = k
    THEN CHOOSE i \in 1..Len(b) : b[i].k = k
    ELSE 0

length(b) == Len(b)

getItem(b, k) ==
    IF indexOf(b, k) = 0 THEN [found |-> FALSE, raw |-> RawEmpty]
    ELSE [found |-> TRUE, raw |-> b[indexOf(b, k)].raw]

\* backing.key(i), i counted from 0
key(b, i) == b[i + 1].k

removeItem(b, k) ==
    LET keep == {i \in 1..Len(b) : b[i].k # k}
        RECURSIVE pick(_)
        pick(i) == IF i > Len(b) THEN <<>>
                   ELSE (IF i \in keep THEN <<b[i]>> ELSE <<>>) \o pick(i + 1)
    IN pick(1)

setItem(b, k, raw) ==
    IF indexOf(b, k) = 0 THEN Append(b, [k |-> k, raw |-> raw])
    ELSE [b EXCEPT ![indexOf(b, k)] = [k |-> k, raw |-> raw]]

clearItems(b) == <<>>

\* ---------------------------------------------------------------- emitter
SetEv(k) == [type |-> "set", key |-> k]
RemoveEv(k) == [type |-> "remove", key |-> k]
ClearEv == [type |-> "clear", key |-> <<>>]

\* on(fn): Set.add keeps the place of a listener that is already registered.
on(f, fn) == IF \E i \in 1..Len(f) : f[i] = fn THEN f ELSE Append(f, fn)

\* (mutant) a handle that deletes nothing
off_noop(f, fn) == f

\* the returned handle: fns.delete(fn)
off(f, fn) == SelectSeq(f, LAMBDA g : g # fn)

\* s is the machine while a call runs: [b: the backend, fns: the emitter's Set,
\* calls: the record of the listeners, fail: the backend operations that throw,
\* threw: an exception is on its way to the caller, wired: make() added its
\* storage listener to the window].
RECURSIVE emit(_, _)
RECURSIVE forEach(_, _, _, _)
RECURSIVE invoke(_, _, _)
RECURSIVE remove(_, _)
RECURSIVE wp_listener(_, _, _, _)

\* The functions callers subscribe. L1, L2, N and M push the event they are
\* handed to an array. R does so and, handed a Set event, calls
\* store.remove(key). U does so and invokes the Unsubscribe handle of L2.
\* Wa and Wb are the closures withPrefix(store, "a") and withPrefix(store, "b")
\* hand to store.subscribe for N and for M.
Wrapped ==
    [Wa |-> [prefix |-> <<"a">>, fn |-> "N"],
     Wb |-> [prefix |-> <<"b">>, fn |-> "M"]]

heard(s, g, c) == [s EXCEPT !.calls = Append(@, [fn |-> g, c |-> c])]

\* fn(c)
invoke(s, g, c) ==
    CASE g \in DOMAIN Wrapped -> wp_listener(s, Wrapped[g].prefix, Wrapped[g].fn, c)
      [] g = "R" -> IF c.type = "set" THEN remove(heard(s, g, c), c.key)
                    ELSE heard(s, g, c)
      [] g = "U" -> [heard(s, g, c) EXCEPT !.fns = off(@, "L2")]
      [] OTHER -> heard(s, g, c)

\* Set.prototype.forEach walks the entries in insertion order as the Set is
\* when it gets to each: slots are the entries of the walk, Gone where one
\* was deleted; an entry added during the walk is appended and visited.
Gone == ""

resync(slots, f) ==
    [i \in 1..Len(slots) |->
        IF \E j \in 1..Len(f) : f[j] = slots[i] THEN slots[i] ELSE Gone]
    \o SelectSeq(f, LAMBDA g : \A i \in 1..Len(slots) : slots[i] # g)

\* (mutant) the walk is over a copy of the Set taken when the round starts
RECURSIVE forEach_snapshot(_, _, _, _)
forEach_snapshot(s, c, slots, i) ==
    IF i > Len(slots) \/ s.threw THEN s
    ELSE forEach_snapshot(invoke(s, slots[i], c), c, slots, i + 1)

forEach(s, c, slots, i) ==
    IF i > Len(slots) \/ s.threw THEN s
    ELSE IF slots[i] = Gone THEN forEach(s, c, slots, i + 1)
    ELSE LET s2 == invoke(s, slots[i], c)
         IN forEach(s2, c, resync(slots, s2.fns), i + 1)

\* emit(c): fns.forEach((fn) => fn(c))
emit(s, c) == forEach(s, c, s.fns, 1)

\* ---------------------------------------------------------------- Store Engine
\* Date.now() is read once per call: the clock does not advance while a call
\* runs. A backend operation named in s.fail throws when it is called (the
\* in-memory fallback never does); JSON.stringify throws for a value that has
\* no JSON text at all (a circular structure, a BigInt).
now == clock

serializable(value) == value # "circular"

\* (mutant) the write is attempted and reported whatever the backend says
writes_always(s, value) == TRUE

\* backing.setItem(key, JSON.stringify(payload)) runs to its end
writes(s, value) == serializable(value) /\ "setItem" \notin s.fail

\* (mutant) an expiry is written whether or not a TTL was given
set_alwaysExpiry(s, k, value, opts) ==
    LET payload == [v |-> value, hasE |-> TRUE,
                    e |-> now + (IF opts.has THEN opts.ttl ELSE 0)]
    IN emit([s EXCEPT !.b = setItem(@, k, stringify(payload))], SetEv(k))

set(s, k, value, opts) ==
    LET payload == IF opts.has /\ opts.ttl # 0
                   THEN [v |-> value, hasE |-> TRUE, e |-> now + opts.ttl]
                   ELSE [v |-> value, hasE |-> FALSE, e |-> 0]
    IN IF writes(s, value)
       THEN [emit([s EXCEPT !.b = setItem(@, k, stringify(payload))], SetEv(k))
                EXCEPT !.threw = FALSE]
       ELSE s

\* (mutant) expired as soon as the time reaches the expiry: now() >= parsed.e
get_expiresAtExpiry(s, k) ==
    LET parsed == safeParse(getItem(s.b, k))
    IN IF parsed.kind # "object" THEN [s |-> s, ret |-> "undefined"]
       ELSE IF parsed.hasE /\ parsed.e # 0 /\ now >= parsed.e THEN
           [s |-> emit([s EXCEPT !.b = removeItem(@, k)], RemoveEv(k)),
            ret |-> "undefined"]
       ELSE [s |-> s, ret |-> parsed.v]

\* get(key): [s: the machine after the call, ret: the value returned]
get(s, k) ==
    LET parsed == safeParse(getItem(s.b, k))
    IN IF parsed.kind # "object" THEN [s |-> s, ret |-> "undefined"]
       ELSE IF parsed.hasE /\ parsed.e # 0 /\ now > parsed.e THEN
           [s |-> emit(IF "removeItem" \in s.fail THEN s
                       ELSE [s EXCEPT !.b = removeItem(@, k)], RemoveEv(k)),
            ret |-> "undefined"]
       ELSE [s |-> s, ret |-> parsed.v]

\* (mutant) the event is published only when the key was stored
remove_ifPresent(s, k) ==
    IF getItem(s.b, k).found
    THEN emit([s EXCEPT !.b = removeItem(@, k)], RemoveEv(k))
    ELSE s

\* remove(key): try { removeItem } finally { emit }, with no catch
remove(s, k) ==
    IF "removeItem" \in s.fail
    THEN [emit(s, RemoveEv(k)) EXCEPT !.threw = TRUE]
    ELSE emit([s EXCEPT !.b = removeItem(@, k)], RemoveEv(k))

\* (mutant) the entries are removed one by one, each with its Remove event
RECURSIVE clear_viaRemove(_)
clear_viaRemove(s) ==
    IF length(s.b) = 0 THEN emit(s, ClearEv)
    ELSE clear_viaRemove(
             emit([s EXCEPT !.b = removeItem(@, key(s.b, 0))], RemoveEv(key(s.b, 0))))

\* clear(): try { backing.clear() } finally { emit }, with no catch
clear(s) ==
    IF "clear" \in s.fail
    THEN [emit(s, ClearEv) EXCEPT !.threw = TRUE]
    ELSE emit([s EXCEPT !.b = clearItems(@)], ClearEv)

\* (mutant) has(k) answers without touching the backend or the listeners
has_peek(s, k) == [s |-> s, ret |-> get(s, k).ret # "undefined"]

has(s, k) ==
    LET r == get(s, k)
    IN [s |-> r.s, ret |-> r.ret # "undefined"]

\* (mutant) the window's storage listener re-publishes signals of any Storage
onStorage_anyArea(s, e) ==
    IF ~s.wired THEN s
    ELSE IF ~e.hasKey THEN emit(s, ClearEv)
    ELSE IF ~e.hasNew THEN emit(s, RemoveEv(e.key))
    ELSE emit(s, SetEv(e.key))

\* The listener make() adds to the window for "storage" events, when
\* isBrowser() && store (s.wired); store is window.localStorage.
onStorage(s, e) ==
    IF ~s.wired THEN s
    ELSE IF e.storageArea # "local" THEN s
    ELSE IF ~e.hasKey THEN emit(s, ClearEv)
    ELSE IF ~e.hasNew THEN emit(s, RemoveEv(e.key))
    ELSE emit(s, SetEv(e.key))

\* (mutant) every key is listed, without asking has(k)
RECURSIVE keysLoop_noFilter(_, _, _)
keysLoop_noFilter(s, i, ks) ==
    IF ~(i < length(s.b)) THEN [s |-> s, ret |-> ks]
    ELSE keysLoop_noFilter(s, i + 1, Append(ks, key(s.b, i)))

\* keys(): the for loop over i < backing.length, reading length and key(i)
\* afresh on every round.
RECURSIVE keysLoop(_, _, _)
keysLoop(s, i, ks) ==
    IF ~(i < length(s.b)) \/ s.threw THEN [s |-> s, ret |-> ks]
    ELSE LET k == key(s.b, i)
         IN IF k = <<>> THEN keysLoop(s, i + 1, ks)
            ELSE LET h == has(s, k)
                 IN keysLoop(h.s, i + 1, IF h.ret THEN Append(ks, k) ELSE ks)

keys(s) == keysLoop(s, 0, <<>>)

\* ---------------------------------------------------------------- withPrefix
Delim == <<":">>

p(prefix, k) == prefix \o Delim \o k

wp_set(s, prefix, k, value, opts) == set(s, p(prefix, k), value, opts)

wp_get(s, prefix, k) == get(s, p(prefix, k))

wp_remove(s, prefix, k) == remove(s, p(prefix, k))

wp_has(s, prefix, k) == has(s, p(prefix, k))

\* clear: for (const k of store.keys()) if (k.startsWith(prefix + ":")) store.remove(k)
RECURSIVE wp_clearLoop(_, _, _, _)
wp_clearLoop(s, prefix, ks, i) ==
    IF i > Len(ks) \/ s.threw THEN s
    ELSE wp_clearLoop(
             IF startsWith(ks[i], prefix \o Delim) THEN remove(s, ks[i]) ELSE s,
             prefix, ks, i + 1)

\* (mutant) clear delegates to the underlying store's clear
wp_clear_all(s, prefix) == clear(s)

wp_clear(s, prefix) ==
    LET r == keys(s)
    IN wp_clearLoop(r.s, prefix, r.ret, 1)

wp_keys(s, prefix) ==
    LET r == keys(s)
        own == SelectSeq(r.ret, LAMBDA k : startsWith(k, prefix \o Delim))
    IN [s |-> r.s, ret |-> [i \in 1..Len(own) |-> slice(own[i], Len(prefix) + 1)]]

\* (mutant) the closure hands on every event, its key cut
wp_listener_noFilter(s, prefix, fn, ev) ==
    invoke(s, fn, [type |-> ev.type, key |-> slice(ev.key, Len(prefix) + 1)])

\* the closure subscribe(fn) registers: (ev) => { ... fn(...) }
wp_listener(s, prefix, fn, ev) ==
    IF ev.type = "clear" THEN invoke(s, fn, ev)
    ELSE IF startsWith(ev.key, prefix \o Delim)
    THEN invoke(s, fn, [type |-> ev.type, key |-> slice(ev.key, Len(prefix) + 1)])
    ELSE s

\* ---------------------------------------------------------------- observers
\* An envelope with an expiry is expired when the time strictly exceeds it.
Expired(raw, t) == raw.kind = "object" /\ raw.hasE /\ t > raw.e

\* What the backend b holds under k at time t.
Status(b, k, t) ==
    IF \A i \in 1..Len(b) : b[i].k # k THEN "absent"
    ELSE LET raw == (CHOOSE x \in {b[i] : i \in 1..Len(b)} : x.k = k).raw
         IN IF raw.kind # "object" THEN "other"
            ELSE IF Expired(raw, t) THEN "expired"
            ELSE "fresh"

\* What the backend b holds at time t, for a call that takes no key.
StatusAll(b, t) ==
    IF b = <<>> THEN "empty"
    ELSE IF \E i \in 1..Len(b) : Expired(b[i].raw, t) THEN "expired"
    ELSE "fresh"

\* The operations of a Store.
StoreOps ==
    {"set", "get", "has", "remove", "clear", "keys",
     "wp.set", "wp.get", "wp.has", "wp.remove", "wp.clear", "wp.keys"}

\* What a call record holds: the operation, its arguments (val: the value or
\* listener passed), what it returned (val: a value, retb: a boolean, retk: a
\* sequence of keys; threw: an exception reached the caller), what the backend
\* held under the key when the call started, and how many invocations the
\* listeners had recorded by then. opts is filled in by set, handle by the
\* invocation of an Unsubscribe handle (which one it was), e by the host's
\* storage signal. fns0 holds the listeners registered when a call that may
\* publish started.
NoEvent ==
    [storageArea |-> "none", hasKey |-> FALSE, key |-> <<>>,
     hasNew |-> FALSE, newValue |-> RawEmpty]

Called(op, prefix, k, val, retb, retk, keep) ==
    [op |-> op, prefix |-> prefix, key |-> k, opts |-> NoOpts, handle |-> 0,
     e |-> NoEvent,
     val |-> val, retb |-> retb, retk |-> retk, threw |-> FALSE,
     fns0 |-> IF op \in StoreOps \cup {"storage"} THEN fns ELSE <<>>,
     pre |-> IF op \in {"clear", "keys", "wp.clear", "wp.keys"}
             THEN StatusAll(backing, clock)
             ELSE Status(backing,
                         prefix \o (IF prefix = <<>> THEN <<>> ELSE <<":">>) \o k,
                         clock),
     from |-> IF keep THEN Len(calls) ELSE 0]

\* The machine a call starts from. The recording listeners of the test
\* (their events array) keep what they hold when keep is TRUE and start
\* from an empty array otherwise.
Base(keep) ==
    [b |-> backing, fns |-> fns, calls |-> IF keep THEN calls ELSE <<>>,
     fail |-> faulty, threw |-> FALSE, wired |-> host]

\* (a call hands each registered listener at most one event on a one-key store)
CanRecord(keep) == ~keep \/ Len(calls) + Len(fns) <= MaxCalls

\* The mutations evs were performed: every subscribed listener is due them.
Due(keep, evs) ==
    [f \in Listeners |->
        [on |-> due[f].on,
         evs |-> (IF keep THEN due[f].evs ELSE <<>>)
                 \o (IF due[f].on THEN evs ELSE <<>>)]]

\* The entries of b that b2 no longer holds, as removals, in b's order.
Purged(b, b2) ==
    LET gone == SelectSeq(b, LAMBDA x : \A j \in 1..Len(b2) : b2[j].k # x.k)
    IN [i \in 1..Len(gone) |-> RemoveEv(gone[i].k)]

NoWrite == [kind |-> "none", v |-> "undefined", until |-> 0]

\* set(k, v, o) was called at time clock: with a TTL t it is good until clock + t.
Written(v, o) ==
    [kind |-> IF o.has THEN "ttl" ELSE "plain", v |-> v,
     until |-> IF o.has THEN clock + o.ttl ELSE 0]

\* ---------------------------------------------------------------- actions
Init ==
    /\ clock = 1
    /\ host = FALSE
    /\ backing = <<>>
    /\ fns = <<>>
    /\ issued = {}
    /\ calls = <<>>
    /\ last = Called("make", <<>>, <<>>, "undefined", FALSE, <<>>, FALSE)
    /\ wrote = [k \in AllKeys |-> NoWrite]
    /\ due = [f \in Listeners |-> [on |-> FALSE, evs |-> <<>>]]
    /\ faulty = {}
    /\ handles = <<>>

\* time passes
Tick ==
    /\ clock < MaxClock
    /\ clock' = clock + 1
    /\ last' = Called("tick", <<>>, <<>>, "undefined", FALSE, <<>>, FALSE)
    /\ UNCHANGED <<host, backing, fns, issued, calls, wrote, due, faulty, handles>>

Set(k, v, o, keep) ==
    /\ CanRecord(keep)
    /\ \E s \in {set(Base(keep), k, v, o)} :
          /\ backing' = s.b
          /\ calls' = s.calls
          /\ fns' = s.fns
          /\ last' = [Called("set", <<>>, k, v, FALSE, <<>>, keep)
                         EXCEPT !.threw = s.threw, !.opts = o]
          /\ wrote' = [wrote EXCEPT ![k] = Written(v, o)]
          /\ due' = Due(keep, <<SetEv(k)>>)
          /\ UNCHANGED <<clock, host, issued, faulty, handles>>

Get(k, keep) ==
    /\ CanRecord(keep)
    /\ \E r \in {get(Base(keep), k)} :
          /\ backing' = r.s.b
          /\ calls' = r.s.calls
          /\ fns' = r.s.fns
          /\ last' = [Called("get", <<>>, k, r.ret, FALSE, <<>>, keep)
                         EXCEPT !.threw = r.s.threw]
          /\ due' = Due(keep, Purged(backing, r.s.b))
          /\ UNCHANGED <<clock, host, issued, wrote, faulty, handles>>

Has(k, keep) ==
    /\ CanRecord(keep)
    /\ \E r \in {has(Base(keep), k)} :
          /\ backing' = r.s.b
          /\ calls' = r.s.calls
          /\ fns' = r.s.fns
          /\ last' = [Called("has", <<>>, k, "undefined", r.ret, <<>>, keep)
                         EXCEPT !.threw = r.s.threw]
          /\ due' = Due(keep, Purged(backing, r.s.b))
          /\ UNCHANGED <<clock, host, issued, wrote, faulty, handles>>

Remove(k, keep) ==
    /\ CanRecord(keep)
    /\ \E s \in {remove(Base(keep), k)} :
          /\ backing' = s.b
          /\ calls' = s.calls
          /\ fns' = s.fns
          /\ last' = [Called("remove", <<>>, k, "undefined", FALSE, <<>>, keep)
                         EXCEPT !.threw = s.threw]
          /\ wrote' = [wrote EXCEPT ![k] = NoWrite]
          /\ due' = Due(keep, <<RemoveEv(k)>>)
          /\ UNCHANGED <<clock, host, issued, faulty, handles>>

Clear(keep) ==
    /\ CanRecord(keep)
    /\ \E s \in {clear(Base(keep))} :
          /\ backing' = s.b
          /\ calls' = s.calls
          /\ fns' = s.fns
          /\ last' = [Called("clear", <<>>, <<>>, "undefined", FALSE, <<>>, keep)
                         EXCEPT !.threw = s.threw]
          /\ wrote' = [k \in AllKeys |-> NoWrite]
          /\ due' = Due(keep, <<ClearEv>>)
          /\ UNCHANGED <<clock, host, issued, faulty, handles>>

Keys(keep) ==
    /\ CanRecord(keep)
    /\ \E r \in {keys(Base(keep))} :
          /\ backing' = r.s.b
          /\ calls' = r.s.calls
          /\ fns' = r.s.fns
          /\ last' = [Called("keys", <<>>, <<>>, "undefined", FALSE, r.ret, keep)
                         EXCEPT !.threw = r.s.threw]
          /\ due' = Due(keep, Purged(backing, r.s.b))
          /\ UNCHANGED <<clock, host, issued, wrote, faulty, handles>>

\* subscribe(fn): returns the handle of emitter.on(fn)
Subscribe(fn) ==
    /\ fns' = on(fns, fn)
    /\ issued' = issued \cup {fn}
    /\ due' = [f \in Listeners |->
                  IF f = fn THEN [due[f] EXCEPT !.on = TRUE] ELSE due[f]]
    /\ last' = Called("subscribe", <<>>, <<>>, fn, FALSE, <<>>, FALSE)
    /\ UNCHANGED <<clock, host, backing, calls, wrote, faulty, handles>>

\* a handle returned for fn is invoked
Unsubscribe(fn) ==
    /\ fn \in issued
    /\ fns' = off(fns, fn)
    /\ due' = [f \in Listeners |->
                  IF f = fn THEN [due[f] EXCEPT !.on = FALSE] ELSE due[f]]
    /\ last' = Called("unsubscribe", <<>>, <<>>, fn, FALSE, <<>>, FALSE)
    /\ UNCHANGED <<clock, host, backing, issued, calls, wrote, faulty, handles>>

\* operations through withPrefix(store, prefix)
NsSet(prefix, k, v, o, keep) ==
    /\ CanRecord(keep)
    /\ \E s \in {wp_set(Base(keep), prefix, k, v, o)} :
          /\ backing' = s.b
          /\ calls' = s.calls
          /\ fns' = s.fns
          /\ last' = [Called("wp.set", prefix, k, v, FALSE, <<>>, keep)
                         EXCEPT !.threw = s.threw, !.opts = o]
          /\ wrote' = [wrote EXCEPT ![p(prefix, k)] = Written(v, o)]
          /\ due' = Due(keep, <<SetEv(p(prefix, k))>>)
          /\ UNCHANGED <<clock, host, issued, faulty, handles>>

NsGet(prefix, k, keep) ==
    /\ CanRecord(keep)
    /\ \E r \in {wp_get(Base(keep), prefix, k)} :
          /\ backing' = r.s.b
          /\ calls' = r.s.calls
          /\ fns' = r.s.fns
          /\ last' = [Called("wp.get", prefix, k, r.ret, FALSE, <<>>, keep)
                         EXCEPT !.threw = r.s.threw]
          /\ due' = Due(keep, Purged(backing, r.s.b))
          /\ UNCHANGED <<clock, host, issued, wrote, faulty, handles>>

NsHas(prefix, k, keep) ==
    /\ CanRecord(keep)
    /\ \E r \in {wp_has(Base(keep), prefix, k)} :
          /\ backing' = r.s.b
          /\ calls' = r.s.calls
          /\ fns' = r.s.fns
          /\ last' = [Called("wp.has", prefix, k, "undefined", r.ret, <<>>, keep)
                         EXCEPT !.threw = r.s.threw]
          /\ due' = Due(keep, Purged(backing, r.s.b))
          /\ UNCHANGED <<clock, host, issued, wrote, faulty, handles>>

NsRemove(prefix, k, keep) ==
    /\ CanRecord(keep)
    /\ \E s \in {wp_remove(Base(keep), prefix, k)} :
          /\ backing' = s.b
          /\ calls' = s.calls
          /\ fns' = s.fns
          /\ last' = [Called("wp.remove", prefix, k, "undefined", FALSE, <<>>, keep)
                         EXCEPT !.threw = s.threw]
          /\ wrote' = [wrote EXCEPT ![p(prefix, k)] = NoWrite]
          /\ due' = Due(keep, <<RemoveEv(p(prefix, k))>>)
          /\ UNCHANGED <<clock, host, issued, faulty, handles>>

NsClear(prefix, keep) ==
    /\ CanRecord(keep)
    /\ \E s \in {wp_clear(Base(keep), prefix)} :
          /\ backing' = s.b
          /\ calls' = s.calls
          /\ fns' = s.fns
          /\ last' = [Called("wp.clear", prefix, <<>>, "undefined", FALSE, <<>>, keep)
                         EXCEPT !.threw = s.threw]
          /\ wrote' = [k \in AllKeys |->
                          IF startsWith(k, prefix \o Delim) THEN NoWrite ELSE wrote[k]]
          /\ due' = Due(keep, Purged(backing, s.b))
          /\ UNCHANGED <<clock, host, issued, faulty, handles>>

NsKeysOp(prefix, keep) ==
    /\ CanRecord(keep)
    /\ \E r \in {wp_keys(Base(keep), prefix)} :
          /\ backing' = r.s.b
          /\ calls' = r.s.calls
          /\ fns' = r.s.fns
          /\ last' = [Called("wp.keys", prefix, <<>>, "undefined", FALSE, r.ret, keep)
                         EXCEPT !.threw = r.s.threw]
          /\ due' = Due(keep, Purged(backing, r.s.b))
          /\ UNCHANGED <<clock, host, issued, wrote, faulty, handles>>

\* The Store Engine, each call observed on its own.
Next ==
    \/ Tick
    \/ \E k \in StoreKeys, v \in JSValues, o \in Opts : Set(k, v, o, FALSE)
    \/ \E k \in StoreKeys : Get(k, FALSE)
    \/ \E k \in StoreKeys : Has(k, FALSE)
    \/ \E k \in StoreKeys : Remove(k, FALSE)
    \/ Clear(FALSE)
    \/ Keys(FALSE)
    \/ Subscribe("L1")
    \/ Unsubscribe("L1")

Spec == Init /\ [][Next]_vars

\* A namespaced view withPrefix(store, "a") beside direct use of the store.
NextNs ==
    \/ Tick
    \/ \E k \in OutsideKeys, o \in ShortOpts : Set(k, "1", o, FALSE)
    \/ \E pre \in Prefixes, k \in NsKeys, v \in JSONValues, o \in ShortOpts :
           NsSet(pre, k, v, o, FALSE)
    \/ \E pre \in Prefixes, k \in NsKeys : NsGet(pre, k, FALSE)
    \/ \E pre \in Prefixes, k \in NsKeys : NsHas(pre, k, FALSE)
    \/ \E pre \in Prefixes, k \in NsKeys : NsRemove(pre, k, FALSE)
    \/ \E pre \in Prefixes : NsClear(pre, FALSE)
    \/ \E pre \in Prefixes : NsKeysOp(pre, FALSE)
    \/ Subscribe("L1")

SpecNs == Init /\ [][NextNs]_vars

\* Recording listeners that keep every event they got, on a one-key store.
NextSub ==
    \/ Tick
    \/ \E k \in SubKeys, o \in ShortOpts : Set(k, "1", o, TRUE)
    \/ \E k \in SubKeys : Get(k, TRUE)
    \/ \E k \in SubKeys : Has(k, TRUE)
    \/ \E k \in SubKeys : Remove(k, TRUE)
    \/ Clear(TRUE)
    \/ Keys(TRUE)
    \/ \E fn \in Listeners : Subscribe(fn)
    \/ \E fn \in Listeners : Unsubscribe(fn)

SpecSub == Init /\ [][NextSub]_vars

\* ---------------------------------------------------------------- claims
\* The store as it is now, for a call made next.
Here ==
    [b |-> backing, fns |-> fns, calls |-> <<>>, fail |-> {}, threw |-> FALSE,
     wired |-> host]

KeysOf(b) == {b[i].k : i \in 1..Len(b)}

Range(q) == {q[i] : i \in 1..Len(q)}

\* C1: after set(k, v) without a TTL, v defined and JSON-representable,
\* get(k) returns v in every later state (whatever the clock, whatever
\* get/has/keys calls were made) until k is set again, removed or cleared.
C1_PlainSetStays ==
    \A k \in StoreKeys :
        (wrote[k].kind = "plain" /\ wrote[k].v \in JSONValues)
            => get(Here, k).ret = wrote[k].v

\* a get that returned the value at the last clock value, after the other
\* key had expired and been read
C1_Witness ==
    /\ last.op = "get" /\ last.key = KeyA /\ last.val = "1"
    /\ wrote[KeyA].kind = "plain"
    /\ wrote[KeyAX].kind = "ttl" /\ clock > wrote[KeyAX].until
    /\ KeysOf(backing) = {KeyA}

\* C2: after set(k, v, {ttl: t}) at time T with t > 0, get(k) returns v while
\* the clock is at most T + t; once the clock exceeds T + t, get(k) returns
\* undefined and a has(k) after it returns false.
C2_TTLBoundary ==
    \A k \in StoreKeys :
        (wrote[k].kind = "ttl" /\ wrote[k].v \in JSONValues) =>
            LET r == get(Here, k)
            IN /\ clock <= wrote[k].until => r.ret = wrote[k].v
               /\ clock > wrote[k].until =>
                      (r.ret = "undefined" /\ ~has(r.s, k).ret)

\* a get at exactly T + t that returned the value, next to a key past its expiry
C2_Witness ==
    /\ last.op = "get" /\ last.key = KeyA /\ last.val = "1"
    /\ wrote[KeyA].kind = "ttl" /\ clock = wrote[KeyA].until
    /\ wrote[KeyAX].kind = "ttl" /\ clock > wrote[KeyAX].until
    /\ get(Here, KeyAX).ret = "undefined"

\* C3: keys() never returns a key whose envelope in the backend has an expiry
\* that the current time has passed.
C3_KeysNoExpired ==
    \A k \in Range(keys(Here).ret) : Status(backing, k, clock) # "expired"

\* a keys() call that dropped an expired key (its Remove event was recorded)
\* and returned the other one
C3_Witness ==
    /\ last.op = "keys"
    /\ last.retk = <<KeyA>>
    /\ calls = <<[fn |-> "L1", c |-> RemoveEv(KeyAX)]>>

\* C4: keys() returns exactly the stored keys for which has(k) is true, each
\* once, whatever the positions of the expired entries.
C4_KeysListsEveryFreshKey ==
    LET r == keys(Here).ret
    IN /\ Range(r) = {k \in KeysOf(backing) : has(Here, k).ret}
       /\ \A i, j \in 1..Len(r) : r[i] = r[j] => i = j
\* The listener invocations recorded during the last call.
OpCalls == SubSeq(calls, last.from + 1, Len(calls))

\* The events listener f was handed, out of the invocations q.
Handed(q, f) ==
    LET own == SelectSeq(q, LAMBDA x : x.fn = f)
    IN [i \in 1..Len(own) |-> own[i].c]

Registered == Range(fns)

\* C5: remove(k) publishes exactly one Remove{k} event to every registered
\* subscriber (and nothing to anyone else) and leaves get(k) absent, whether k
\* was fresh, expired or not stored.
C5_RemovePublishesOnce ==
    last.op = "remove" =>
        /\ \A f \in Listeners :
               Handed(OpCalls, f) =
                   IF f \in Registered THEN <<RemoveEv(last.key)>> ELSE <<>>
        /\ get(Here, last.key).ret = "undefined"

\* remove of an expired key with two subscribers
C5_Witness ==
    /\ last.op = "remove" /\ last.pre = "expired"
    /\ Registered = Listeners
    /\ Len(OpCalls) = 2

\* C6: clear() publishes exactly one Clear{} event, and no Remove event, to
\* every registered subscriber, and keys() right after it returns <<>>.
C6_ClearPublishesOnce ==
    last.op = "clear" =>
        /\ \A f \in Listeners :
               Handed(OpCalls, f) = IF f \in Registered THEN <<ClearEv>> ELSE <<>>
        /\ keys(Here).ret = <<>>

\* clear of a backend that held an expired entry, with a subscriber
C6_Witness ==
    /\ last.op = "clear" /\ last.pre = "expired"
    /\ OpCalls = <<[fn |-> "L1", c |-> ClearEv]>>

\* C10: a listener has been handed exactly the mutations performed while it
\* was subscribed, in the order they were performed, and nothing since its
\* unsubscribe handle returned.
C10_ListenerGetsMutationsInOrder ==
    \A f \in Listeners : Handed(calls, f) = due[f].evs

\* subscribe; set(x); remove(x); clear(); unsubscribe; then one more set
C10_Witness ==
    /\ last.op = "set"
    /\ "L1" \notin Registered
    /\ Handed(calls, "L1") = <<SetEv(KeyX), RemoveEv(KeyX), ClearEv>>
    /\ Len(calls) = 3
\* C7: after withPrefix(store, p).set(k, v): store.get(p:k) returns v,
\* withPrefix(store, p).get(k) returns v, and withPrefix(store, p).keys()
\* holds k and not p:k.
C7_NsSetRoundTrip ==
    (last.op = "wp.set" /\ last.val \in JSONValues) =>
        LET listed == Range(wp_keys(Here, last.prefix).ret)
        IN /\ get(Here, p(last.prefix, last.key)).ret = last.val
           /\ wp_get(Here, last.prefix, last.key).ret = last.val
           /\ last.key \in listed
           /\ p(last.prefix, last.key) \notin listed

\* C8 as stated: clear() of withPrefix(store, p) leaves every entry whose key
\* does not start with p: as it was, fresh or expired, and publishes nothing
\* but Remove events for keys under the prefix.
C8_NsClearFrame ==
    [][last'.op = "wp.clear" =>
          LET own == last'.prefix \o Delim
          IN /\ \A i \in 1..Len(backing) :
                    ~startsWith(backing[i].k, own) =>
                        \E j \in 1..Len(backing') : backing'[j] = backing[i]
             /\ \A j \in 1..Len(OpCalls') :
                    /\ OpCalls'[j].c.type = "remove"
                    /\ startsWith(OpCalls'[j].c.key, own)]_vars

\* C8 amended: clear() of withPrefix(store, p) leaves every entry that is
\* outside the prefix and not expired as it was, and publishes nothing but
\* Remove events, each for a key under the prefix or for a key whose entry
\* had expired when the call started.
C8_NsClearFrameFresh ==
    [][last'.op = "wp.clear" =>
          LET own == last'.prefix \o Delim
          IN /\ \A i \in 1..Len(backing) :
                    (~startsWith(backing[i].k, own) /\ ~Expired(backing[i].raw, clock))
                        => \E j \in 1..Len(backing') : backing'[j] = backing[i]
             /\ \A j \in 1..Len(OpCalls') :
                    /\ OpCalls'[j].c.type = "remove"
                    /\ \/ startsWith(OpCalls'[j].c.key, own)
                       \/ Status(backing, OpCalls'[j].c.key, clock) = "expired"]_vars

\* a namespaced clear that removed a:x, purged the expired a and left b:y
C8_Witness ==
    /\ last.op = "wp.clear"
    /\ KeysOf(backing) = {KeyBY}
    /\ Range(OpCalls) =
           {[fn |-> "L1", c |-> RemoveEv(KeyA)], [fn |-> "L1", c |-> RemoveEv(KeyAX)]}

\* C9: after clear() of withPrefix(store, p) no backend key starts with p:,
\* store.get(p:k) is absent for every k and withPrefix(store, p).keys() is
\* empty, whatever the backend held (expired entries included).
C9_NsClearRemovesAll ==
    last.op = "wp.clear" =>
        /\ \A k \in KeysOf(backing) : ~startsWith(k, last.prefix \o Delim)
        /\ \A k \in NsKeys : get(Here, p(last.prefix, k)).ret = "undefined"
        /\ wp_keys(Here, last.prefix).ret = <<>>

\* ---------------------------------------------------------------- a real Storage
\* What a host Storage may hold under x when make() is given it: nothing, or
\* a string some other code wrote there.
Preloaded ==
    {<<>>} \cup {<<[k |-> KeyX, raw |-> raw]>> : raw \in {RawEmpty, RawInvalid, RawFalsy}}

\* make(window.localStorage) in a browser
InitHost ==
    /\ clock = 1
    /\ host = TRUE
    /\ backing \in Preloaded
    /\ fns = <<>>
    /\ issued = {}
    /\ calls = <<>>
    /\ last = Called("make", <<>>, <<>>, "undefined", FALSE, <<>>, FALSE)
    /\ wrote = [k \in AllKeys |-> NoWrite]
    /\ due = [f \in Listeners |-> [on |-> FALSE, evs |-> <<>>]]
    /\ faulty = {}
    /\ handles = <<>>

BackendOps == {"setItem", "removeItem", "clear"}

\* Values passed to set(), one of them with no JSON text at all.
FailValues == {"1", "NaN", "circular"}

\* The host starts or stops refusing operations of the Storage.
Break(ops) ==
    /\ host
    /\ faulty # ops
    /\ faulty' = ops
    /\ last' = Called("break", <<>>, <<>>, "undefined", FALSE, <<>>, FALSE)
    /\ UNCHANGED <<clock, host, backing, fns, issued, calls, wrote, due, handles>>

\* The Store Engine over a Storage whose operations may throw.
NextFail ==
    \/ \E ops \in SUBSET BackendOps : Break(ops)
    \/ \E k \in SubKeys, v \in FailValues : Set(k, v, NoOpts, FALSE)
    \/ \E k \in SubKeys : Get(k, FALSE)
    \/ \E k \in SubKeys : Remove(k, FALSE)
    \/ Clear(FALSE)
    \/ Subscribe("L1")

SpecFail == InitHost /\ [][NextFail]_vars

\* What get(k) returns now.
Stored(k) == get(Here, k).ret

\* C11: set(k, v) returns normally whatever happens. When the backend refuses
\* the write or v has no JSON text, the backend is left as it was, get(k)
\* returns what it returned before and no listener is invoked; when the write
\* goes through, every registered listener is handed exactly one Set{k}.
C11_SetFailsSilently ==
    [][\A k \in SubKeys :
          (last'.op = "set" /\ last'.key = k) =>
              /\ ~last'.threw
              /\ IF "setItem" \in faulty \/ last'.val = "circular"
                 THEN /\ backing' = backing
                      /\ Stored(k)' = Stored(k)
                      /\ OpCalls' = <<>>
                 ELSE \A f \in Listeners :
                          Handed(OpCalls', f) =
                              IF f \in Registered THEN <<SetEv(k)>> ELSE <<>>]_vars

\* a refused write of 1 over a stored NaN, with a subscriber
C11_Witness ==
    /\ last.op = "set" /\ last.val = "1" /\ ~last.threw
    /\ "setItem" \in faulty
    /\ Stored(KeyX) = "null"
    /\ Registered = {"L1"}
    /\ calls = <<>>

\* C12: when the backend's removeItem or clear throws, remove(k) and clear()
\* still return normally and still hand every registered listener the one
\* Remove{k} or Clear{} event.
C12_RemoveClearNeverThrow ==
    last.op \in {"remove", "clear"} =>
        /\ ~last.threw
        /\ \A f \in Listeners :
               Handed(OpCalls, f) =
                   IF f \notin Registered THEN <<>>
                   ELSE IF last.op = "remove" THEN <<RemoveEv(last.key)>>
                   ELSE <<ClearEv>>

\* ---------------------------------------------------------------- handles
\* subscribe(fn), the handle it returns kept: handles[h] is the h-th handle
\* returned, () => fns.delete(fn) for its own fn.
SubscribeH(fn) ==
    /\ Len(handles) < MaxHandles
    /\ fns' = on(fns, fn)
    /\ handles' = Append(handles, [fn |-> fn, spent |-> FALSE])
    /\ due' = [f \in Listeners |->
                  IF f = fn THEN [due[f] EXCEPT !.on = TRUE] ELSE due[f]]
    /\ last' = [Called("subscribe", <<>>, <<>>, fn, FALSE, <<>>, FALSE)
                   EXCEPT !.handle = Len(handles) + 1]
    /\ UNCHANGED <<clock, host, backing, issued, calls, wrote, faulty>>

\* the h-th handle is invoked
InvokeH(h) ==
    /\ h \in 1..Len(handles)
    /\ fns' = off(fns, handles[h].fn)
    /\ handles' = [handles EXCEPT ![h].spent = TRUE]
    /\ due' = [f \in Listeners |->
                  IF f = handles[h].fn THEN [due[f] EXCEPT !.on = FALSE] ELSE due[f]]
    /\ last' = [Called("unsubscribe", <<>>, <<>>, handles[h].fn, FALSE, <<>>, FALSE)
                   EXCEPT !.handle = h]
    /\ UNCHANGED <<clock, host, backing, issued, calls, wrote, faulty>>

\* Subscriptions and their handles, with events published in between.
NextHandles ==
    \/ \E fn \in Listeners : SubscribeH(fn)
    \/ \E h \in 1..MaxHandles : InvokeH(h)
    \/ \E k \in SubKeys : Set(k, "1", NoOpts, FALSE)
    \/ \E k \in SubKeys : Remove(k, FALSE)

SpecHandles == Init /\ [][NextHandles]_vars

\* C13: invoking an Unsubscribe handle that was invoked before leaves the
\* registered listeners as they are and raises no error, also when its
\* listener was subscribed again in between.
C13_HandleIdempotent ==
    [][\A h \in 1..Len(handles) :
          (last'.op = "unsubscribe" /\ last'.handle = h /\ handles[h].spent)
              => (fns' = fns /\ ~last'.threw)]_vars

\* ---------------------------------------------------------------- storage signals
\* StorageEvents the host may dispatch: another context changed localStorage
\* or sessionStorage (key null: it was cleared; newValue null: the key was
\* removed; else the key was given the string newValue).
NewValues == {RawInvalid, stringify([v |-> "1", hasE |-> FALSE, e |-> 0])}

Signals ==
    {[storageArea |-> a, hasKey |-> FALSE, key |-> <<>>,
      hasNew |-> FALSE, newValue |-> RawEmpty] : a \in {"local", "session"}}
    \cup {[storageArea |-> a, hasKey |-> TRUE, key |-> k,
           hasNew |-> FALSE, newValue |-> RawEmpty] :
              a \in {"local", "session"}, k \in SubKeys}
    \cup {[storageArea |-> a, hasKey |-> TRUE, key |-> k,
           hasNew |-> TRUE, newValue |-> raw] :
              a \in {"local", "session"}, k \in SubKeys, raw \in NewValues}

\* What the other context did to the Storage the signal is about.
changed(b, e) ==
    IF ~e.hasKey THEN clearItems(b)
    ELSE IF ~e.hasNew THEN removeItem(b, e.key)
    ELSE setItem(b, e.key, e.newValue)

\* The host dispatches the storage event e. An engine over localStorage finds
\* the change of e in its backend; the in-memory fallback is nobody else's.
Signal(e) ==
    LET theirs == IF host /\ e.storageArea = "local" THEN changed(backing, e)
                  ELSE backing
        s == onStorage([Base(FALSE) EXCEPT !.b = theirs], e)
    IN /\ backing' = s.b
       /\ calls' = s.calls
       /\ fns' = s.fns
       /\ last' = [Called("storage", <<>>, e.key, "undefined", FALSE, <<>>, FALSE)
                      EXCEPT !.threw = s.threw, !.e = e]
       /\ wrote' = [k \in AllKeys |->
                       IF getItem(theirs, k) = getItem(backing, k)
                       THEN wrote[k] ELSE NoWrite]
       /\ due' = Due(FALSE, <<>>)
       /\ UNCHANGED <<clock, host, issued, faulty, handles>>

InitEither == Init \/ InitHost

\* An engine over the in-memory fallback or over localStorage, with the
\* host's signals and the clock.
NextHost ==
    \/ Tick
    \/ \E e \in Signals : Signal(e)
    \/ \E k \in SubKeys, o \in ShortOpts : Set(k, "1", o, FALSE)
    \/ \E k \in SubKeys : Get(k, FALSE)
    \/ \E k \in SubKeys : Has(k, FALSE)
    \/ Subscribe("L1")

SpecHost == InitEither /\ [][NextHost]_vars

\* C14: a storage signal is handed on to the registered listeners exactly
\* when the engine wraps the host's Storage and the signal is about that
\* Storage: as Clear{} without a key, as Remove{key} with a key and no new
\* value, as Set{key} with a key and a new value. A signal about the other
\* Storage, or any signal for the in-memory fallback, invokes no listener.
C14_SignalRepublished ==
    last.op = "storage" =>
        LET e == last.e
            c == IF ~e.hasKey THEN ClearEv
                 ELSE IF ~e.hasNew THEN RemoveEv(e.key)
                 ELSE SetEv(e.key)
        IN \A f \in Listeners :
               Handed(OpCalls, f) =
                   IF f \in Registered /\ host /\ e.storageArea = "local"
                   THEN <<c>> ELSE <<>>

\* localStorage lost x in another context: the subscriber got Remove{x}
C14_Witness ==
    /\ last.op = "storage" /\ host
    /\ last.e.storageArea = "local" /\ last.e.hasKey /\ ~last.e.hasNew
    /\ OpCalls = <<[fn |-> "L1", c |-> RemoveEv(KeyX)]>>

\* ---------------------------------------------------------------- two namespaces
TwoPrefixes == {<<"a">>, <<"b">>}

\* The closure withPrefix(store, prefix).subscribe registers.
WrapperOf(prefix) == CHOOSE g \in DOMAIN Wrapped : Wrapped[g].prefix = prefix

\* withPrefix(store, prefix).subscribe(fn), fn the recording listener of the
\* namespace (one subscription per namespace).
NsSubscribe(prefix) ==
    /\ \A i \in 1..Len(fns) : fns[i] # WrapperOf(prefix)
    /\ fns' = on(fns, WrapperOf(prefix))
    /\ last' = Called("wp.subscribe", prefix, <<>>, Wrapped[WrapperOf(prefix)].fn,
                      FALSE, <<>>, FALSE)
    /\ UNCHANGED <<clock, host, backing, issued, calls, wrote, due, faulty, handles>>

\* withPrefix(store, "a") and withPrefix(store, "b") over one store, which
\* has a subscriber of its own.
NextWrap ==
    \/ Tick
    \/ Clear(FALSE)
    \/ \E pre \in TwoPrefixes, k \in NsKeys, o \in ShortOpts : NsSet(pre, k, "1", o, FALSE)
    \/ \E pre \in TwoPrefixes, k \in NsKeys : NsRemove(pre, k, FALSE)
    \/ \E pre \in TwoPrefixes : NsClear(pre, FALSE)
    \/ \E pre \in TwoPrefixes : NsKeysOp(pre, FALSE)
    \/ Subscribe("L1")
    \/ \E pre \in TwoPrefixes : NsSubscribe(pre)

SpecWrap == Init /\ [][NextWrap]_vars

\* The events evs as a listener of the namespace prefix is to see them.
Seen(evs, prefix) ==
    LET own == SelectSeq(evs, LAMBDA c : c.type = "clear"
                                         \/ startsWith(c.key, prefix \o Delim))
    IN [i \in 1..Len(own) |->
           IF own[i].type = "clear" THEN own[i]
           ELSE [type |-> own[i].type, key |-> slice(own[i].key, Len(prefix) + 1)]]

\* C15: of the events the store publishes (those a direct subscriber is
\* handed), a listener subscribed through withPrefix(store, p) is handed
\* Clear{} as it is, Set/Remove with the key cut to what follows p: exactly
\* when the key starts with p:, and nothing else, in the same order.
C15_NsListenerFilter ==
    (last.op \in StoreOps /\ "L1" \in Registered) =>
        \A g \in DOMAIN Wrapped :
            Handed(OpCalls, Wrapped[g].fn) =
                IF g \in Registered
                THEN Seen(Handed(OpCalls, "L1"), Wrapped[g].prefix)
                ELSE <<>>

\* a clear() through "a" that removed a:x and purged the expired b:x, seen
\* through "a" and through "b"
C15_Witness ==
    /\ last.op = "wp.clear" /\ last.prefix = <<"a">>
    /\ Registered = {"L1", "Wa", "Wb"}
    /\ Handed(OpCalls, "N") = <<RemoveEv(KeyX)>>
    /\ Handed(OpCalls, "M") = <<RemoveEv(KeyX)>>
    /\ Len(Handed(OpCalls, "L1")) = 2

\* What withPrefix(store, q) answers when the store is as in s.
NsAnswers(s, q) ==
    [get |-> [k \in NsKeys |-> wp_get(s, q, k).ret],
     has |-> [k \in NsKeys |-> wp_has(s, q, k).ret],
     keys |-> wp_keys(s, q).ret]

\* The store after one set, remove or clear through withPrefix(store, p),
\* called now.
NsWrites(pre) ==
    {wp_set(Here, pre, k, "1", o) : k \in NsKeys, o \in ShortOpts}
    \cup {wp_remove(Here, pre, k) : k \in NsKeys}
    \cup {wp_clear(Here, pre)}

\* C16: for distinct prefixes p and q, a set, remove or clear through
\* withPrefix(store, p) changes nothing of what get, has and keys answer
\* through withPrefix(store, q) and hands no event to a listener subscribed
\* through withPrefix(store, q).
C16_NamespacesIsolated ==
    \A pre, q \in TwoPrefixes :
        pre # q =>
            \A s \in NsWrites(pre) :
                /\ NsAnswers(s, q) = NsAnswers(Here, q)
                /\ Handed(s.calls, Wrapped[WrapperOf(q)].fn) = <<>>

\* The listener invocations a get(k) made now would record.
Again(k) == get(Here, k).s.calls

\* C17: get(k) or has(k) on a key whose envelope has expired removes k (and
\* nothing else) from the backend, hands every registered listener exactly
\* one Remove{k}, answers absent/false, and a get(k) after it invokes no
\* listener; on a key that is absent, unparseable or not expired it leaves
\* the backend as it was and invokes no listener.
C17_LazyExpiry ==
    [][\A k \in SubKeys :
          (last'.op \in {"get", "has"} /\ last'.key = k) =>
              IF Status(backing, k, clock) = "expired"
              THEN /\ backing' = removeItem(backing, k)
                   /\ \A f \in Listeners :
                          Handed(OpCalls', f) =
                              IF f \in Registered THEN <<RemoveEv(k)>> ELSE <<>>
                   /\ last'.val = "undefined" /\ ~last'.retb
                   /\ Again(k)' = <<>>
              ELSE /\ backing' = backing
                   /\ OpCalls' = <<>>]_vars

\* has(x) past the expiry of x, with a subscriber
C17_Witness ==
    /\ last.op = "has" /\ last.pre = "expired" /\ ~last.retb
    /\ OpCalls = <<[fn |-> "L1", c |-> RemoveEv(KeyX)]>>
    /\ backing = <<>>

\* ---------------------------------------------------------------- any ttl
\* The options set() may be given: none (or none with a ttl), or a ttl that
\* is negative, zero or positive.
AnyOpts == {NoOpts} \cup {[has |-> TRUE, ttl |-> t] : t \in (0 - MaxTTL)..MaxTTL}

NextTTL ==
    \/ Tick
    \/ \E k \in SubKeys, o \in AnyOpts : Set(k, "1", o, FALSE)
    \/ \E k \in SubKeys : Get(k, FALSE)
    \/ \E k \in SubKeys : Has(k, FALSE)
    \/ Subscribe("L1")

SpecTTL == Init /\ [][NextTTL]_vars

\* C18: the envelope set(k, v, options) writes has the expiry now + ttl
\* when options has a positive ttl; with no options, no ttl, ttl = 0 or a
\* negative ttl it has no expiry, and get(k) returns v.
C18_ExpiryOnlyForPositiveTTL ==
    last.op = "set" =>
        LET raw == getItem(backing, last.key).raw
        IN IF last.opts.has /\ last.opts.ttl > 0
           THEN raw.hasE /\ raw.e = clock + last.opts.ttl
           ELSE ~raw.hasE /\ Stored(last.key) = last.val

\* ---------------------------------------------------------------- listeners that act
\* Every function a caller may subscribe directly.
Callbacks == Listeners \cup {"R", "U"}

\* Listeners that call back into the store (R) or unsubscribe another
\* listener (U) while an event is delivered, next to the recording ones.
NextRe ==
    \/ \E fn \in Callbacks : Subscribe(fn)
    \/ \E k \in SubKeys : Set(k, "1", NoOpts, FALSE)
    \/ \E k \in SubKeys : Remove(k, FALSE)
    \/ Clear(FALSE)

SpecRe == Init /\ [][NextRe]_vars

\* The listeners invoked, in order, out of the invocations q.
Invoked(q) == [i \in 1..Len(q) |-> q[i].fn]

\* a comes before b in the sequence f
Before(f, a, b) == \E i, j \in 1..Len(f) : i < j /\ f[i] = a /\ f[j] = b

\* C19: the listeners that are registered throughout a store operation are
\* handed the events of that operation in one and the same order, the order
\* of their publication, also when a listener calls the store while an event
\* is delivered.
C19_SameOrderForAll ==
    last.op \in StoreOps =>
        \A f, g \in Range(last.fns0) \cap Registered :
            Handed(OpCalls, f) = Handed(OpCalls, g)

\* C20: in the one publish round of remove(k) or clear(), a listener that an
\* earlier-invoked listener of the round unsubscribed is not invoked, and
\* every other listener registered when the round started is invoked exactly
\* once, in subscription order.
C20_RoundSkipsUnsubscribed ==
    last.op \in {"remove", "clear"} =>
        Invoked(OpCalls) =
            SelectSeq(last.fns0,
                      LAMBDA g : ~(g = "L2" /\ Before(last.fns0, "U", "L2")))

\* a clear() whose round started with U, L2, L1: U unsubscribed L2, then L1
\* was invoked
C20_Witness ==
    /\ last.op = "clear"
    /\ last.fns0 = <<"U", "L2", "L1">>
    /\ Invoked(OpCalls) = <<"U", "L1">>
    /\ fns = <<"U", "L1">>

====
